---- MODULE Spec2Model ----
(***************************************************************************)
(* The car-assistant chat service: module start-up (environment, database  *)
(* handle, model client, agent) and the turn dispatcher `predict`, in its  *)
(* session-memory variant (app.py) and in its earlier variant (main.py).   *)
(*                                                                         *)
(* The agent, the model and the checkpoint store are external libraries.   *)
(* They are modelled by what the source relies on: agent.stream yields an  *)
(* ordered trace of states whose last message the dispatcher reads, may    *)
(* raise at any point, may never answer, and keeps its conversation state  *)
(* in the checkpointer under the thread id it is given.  The diagnostic    *)
(* print calls of predict write to standard output only and are left out.  *)
(***************************************************************************)
EXTENDS Naturals, Sequences, FiniteSets, TLC

\* ------------------------------------------------------------- bounds
\* turns (predict calls) started in one run
MaxTurns == 2
\* steps one trace of the engine may yield
MaxSteps == 3

\* concurrent client sessions (browser tabs) of the Chat Front-End
Sessions == {"A", "B"}
\* utterances a user may type
Utterances == {"cars under 20k", "cheaper ones"}
\* texts of the faults the engine may raise (str(e))
FaultTexts == {"boom", ""}

\* ------------------------------------------------------ python values
\* an optional string: None, or a str
PyNone == [isNone |-> TRUE, val |-> ""]
PyStr(s) == [isNone |-> FALSE, val |-> s]
\* truth value of an optional string: None and "" are falsy
Truthy(o) == ~o.isNone /\ o.val # ""

\* values an environment variable may have: unset, empty, set
EnvNames == {"DB_USER", "DB_PASSWORD", "DB_HOST", "OPENAI_API_KEY"}
EnvVals(name) ==
    IF name = "DB_USER" THEN {PyNone, PyStr(""), PyStr("x")}
    ELSE IF name = "DB_HOST" THEN {PyNone, PyStr("")}
    ELSE {PyNone, PyStr("x")}
Environments == {e \in [EnvNames -> {PyNone, PyStr(""), PyStr("x")}] :
                    \A n \in EnvNames : e[n] \in EnvVals(n)}

\* os.getenv(name): the variable, None when unset
getenv(e, name) == e[name]
\* os.getenv(name, default)
getenv_default(e, name, default) ==
    IF e[name].isNone THEN PyStr(default) ELSE e[name]

\* ------------------------------------------------------------ requests
\* session hashes the transport layer may hand out
Hashes == {"a", "b"}
\* gr.Request as predict sees it: the request may be None, may lack the
\* attribute session_hash, or carry it (None, "" or a hash)
NoRequest == [isNone |-> TRUE, hasAttr |-> FALSE, session_hash |-> PyNone]
BareRequest == [isNone |-> FALSE, hasAttr |-> FALSE, session_hash |-> PyNone]
Request(h) == [isNone |-> FALSE, hasAttr |-> TRUE, session_hash |-> h]
HashVals == {PyNone, PyStr("")} \cup {PyStr(h) : h \in Hashes}
Requests == {NoRequest, BareRequest} \cup {Request(h) : h \in HashVals}

\* getattr(request, "session_hash", None)
getattr_session_hash(request) ==
    IF request.isNone \/ ~request.hasAttr THEN PyNone ELSE request.session_hash

THREAD_ID == "edrive_conv_ai"

\* str(o), as an f-string formats it
pystr(o) == IF o.isNone THEN "None" ELSE o.val

\* mutants of thread_id_of: the condition inverted; the session hash left
\* out; the utterance in place of the session hash; the hash always formatted
thread_id_inverted(message, request) ==
    LET session_hash == getattr_session_hash(request)
    IN  IF Truthy(session_hash)
        THEN THREAD_ID
        ELSE THREAD_ID \o ":" \o pystr(session_hash)
thread_id_shared(message, request) == THREAD_ID
thread_id_by_message(message, request) == THREAD_ID \o ":" \o message
thread_id_always_formatted(message, request) ==
    THREAD_ID \o ":" \o pystr(getattr_session_hash(request))

\* session_hash = getattr(request, "session_hash", None)
\* thread_id = f"{THREAD_ID}:{session_hash}" if session_hash else THREAD_ID
thread_id_of(message, request) ==
    LET session_hash == getattr_session_hash(request)
    IN  IF Truthy(session_hash)
        THEN THREAD_ID \o ":" \o pystr(session_hash)
        ELSE THREAD_ID

\* ------------------------------------------------------------ messages
\* what predict reads of a message: its content attribute (when it has
\* one), its tool_calls, its type, and its string representation
Msg(type, hasContent, content, tool_calls, str) ==
    [type |-> type, hasContent |-> hasContent, content |-> content,
     tool_calls |-> tool_calls, str |-> str]
\* final_response = None
NoneMsg == Msg("NoneType", FALSE, "", FALSE, "None")
\* {"role": "user", "content": message}
HumanMessage(message) == Msg("human", TRUE, message, FALSE, message)
\* the messages the engine may append in a step: a tool invocation, a tool
\* result, a plain answer, and an object without a content attribute
ToolCallMessage == Msg("ai", TRUE, "", TRUE, "tool_call")
ToolMessage == Msg("tool", TRUE, "2 rows", FALSE, "2 rows")
AIMessage == Msg("ai", TRUE, "Here are 2 cars", FALSE, "Here are 2 cars")
RawMessage == Msg("raw", FALSE, "", FALSE, "<raw>")
StepMessages == {ToolCallMessage, ToolMessage, AIMessage, RawMessage}

ConfigFaultMessage ==
    "System Error: Database connection or OpenAI Key is not set up correctly. Please check your .env file."

\* f"An error occurred: {str(e)}"
ErrorMessage(text) == "An error occurred: " \o text

\* mutant of answer_of: no fallback to str()
answer_content_only(final_response) == final_response.content

\* final_response.content if hasattr(final_response, 'content')
\* else str(final_response)
answer_of(final_response) ==
    IF final_response.hasContent THEN final_response.content
    ELSE final_response.str

\* --------------------------------------------------------------- state
VARIABLES
    variant,       \* which file runs: "app" (app.py) or "main" (main.py)
    env,           \* the process environment after load_dotenv()
    initpc,        \* position of module initialisation
    db_uri,        \* module global db_uri
    db,            \* module global db: "None" or "SQLDatabase"
    llm,           \* module global llm: "None" or "ChatOpenAI"
    agent,         \* agent (app.py) / agent_executor (main.py):
                   \* "unbound" (name never assigned), "None", or "agent"
    checkpointer,  \* MemorySaver: thread id -> the turns (session, number)
                   \* whose messages the thread's state holds
    connected,     \* sessions whose request object is fixed
    request,       \* the gr.Request of each session
    call,          \* the predict call of each session, if any
    inbound,       \* turns each session has sent
    outbound,      \* answers each session has received
    derived,       \* the thread ids predict derived, each with the session
                   \* and the session hash it was derived for
    faulted        \* the turns (session, number) in which the engine raised

vars == <<variant, env, initpc, db_uri, db, llm, agent, checkpointer,
          connected, request, call, inbound, outbound, derived, faulted>>
startup_vars == <<db_uri, db, llm, agent, initpc>>
turn_vars == <<checkpointer, connected, request, call, inbound, outbound, derived, faulted>>

\* a call slot with no predict call in it
\* pc: Idle, Dispatching, Succeeded or Failed (predict has returned `result`),
\* Raised (an exception left predict).  given, yielded and fault record what
\* the engine did: the turns whose messages it was given from the thread's
\* state, the last message it yielded, the fault it raised.  log holds the
\* kinds of diagnostic lines printed.
IdleCall ==
    [pc |-> "Idle", message |-> "", history |-> <<>>, messages |-> <<>>,
     thread_id |-> "",
     loaded |-> FALSE, given |-> {}, nsteps |-> 0, submits |-> 0,
     yielded |-> NoneMsg, log |-> {}, final_response |-> NoneMsg,
     full_prompt |-> "", fault |-> PyNone, result |-> ""]

Init ==
    /\ variant \in {"app", "main"}
    /\ env \in Environments
    /\ initpc = "db_uri"
    /\ db_uri = ""
    /\ db = "None"
    /\ llm = "None"
    /\ agent = "unbound"
    /\ checkpointer = << >>
    /\ connected = {}
    /\ request = [s \in Sessions |-> NoRequest]
    /\ call = [s \in Sessions |-> IdleCall]
    /\ inbound = [s \in Sessions |-> 0]
    /\ outbound = [s \in Sessions |-> 0]
    /\ derived = {}
    /\ faulted = {}

\* ------------------------------------------------------------- start-up
\* f"postgresql://{db_user}:{db_password}@{db_host}:{db_port}/{db_name}"
\* (DB_PORT and DB_NAME are left at their defaults)
format_db_uri(db_user, db_password, db_host) ==
    "postgresql://" \o db_user.val \o ":" \o db_password.val \o "@"
        \o db_host.val \o ":" \o "5432" \o "/" \o "postgres"

\* if db_user and db_password and db_host: db_uri = ... else: db_uri = ""
build_db_uri ==
    /\ initpc = "db_uri"
    /\ LET db_user == getenv(env, "DB_USER")
           db_password == getenv(env, "DB_PASSWORD")
           db_host == getenv_default(env, "DB_HOST", "localhost")
       IN  db_uri' = IF Truthy(db_user) /\ Truthy(db_password) /\ Truthy(db_host)
                     THEN format_db_uri(db_user, db_password, db_host)
                     ELSE ""
    /\ initpc' = "db"
    /\ UNCHANGED <<variant, env, db, llm, agent>>
    /\ UNCHANGED turn_vars

\* mutant of connect_db: no try/except around the connection
connect_db_unguarded ==
    /\ initpc = "db"
    /\ IF db_uri # ""
       THEN \E from_uri_raises \in BOOLEAN :
                /\ db' = IF from_uri_raises THEN "None" ELSE "SQLDatabase"
                /\ initpc' = IF from_uri_raises THEN "crashed" ELSE "llm"
       ELSE db' = "None" /\ initpc' = "llm"
    /\ UNCHANGED <<variant, env, db_uri, llm, agent>>
    /\ UNCHANGED turn_vars

\* try: db = SQLDatabase.from_uri(db_uri, ...) if db_uri else None
\* except Exception: db = None
connect_db ==
    /\ initpc = "db"
    /\ IF db_uri # ""
       THEN \E from_uri_raises \in BOOLEAN :
                db' = IF from_uri_raises THEN "None" ELSE "SQLDatabase"
       ELSE db' = "None"
    /\ initpc' = "llm"
    /\ UNCHANGED <<variant, env, db_uri, llm, agent>>
    /\ UNCHANGED turn_vars

\* llm = ChatOpenAI(...) if OPENAI_API_KEY else None
init_llm ==
    /\ initpc = "llm"
    /\ llm' = IF Truthy(getenv(env, "OPENAI_API_KEY")) THEN "ChatOpenAI" ELSE "None"
    /\ initpc' = "agent"
    /\ UNCHANGED <<variant, env, db_uri, db, agent>>
    /\ UNCHANGED turn_vars

\* app.py: checkpointer = MemorySaver(); if db and llm: ... agent = create_agent(...)
\* main.py: agent_executor = None; if db and llm: ... agent_executor = create_sql_agent(...)
\* The construction calls are not guarded: a fault in them ends the process.
create_agent ==
    /\ initpc = "agent"
    /\ IF db # "None" /\ llm # "None"
       THEN \E construction_raises \in BOOLEAN :
                IF construction_raises
                THEN /\ agent' = IF variant = "main" THEN "None" ELSE "unbound"
                     /\ initpc' = "crashed"
                ELSE /\ agent' = "agent"
                     /\ initpc' = "ready"
       ELSE /\ agent' = IF variant = "main" THEN "None" ELSE "unbound"
            /\ initpc' = "ready"
    /\ UNCHANGED <<variant, env, db_uri, db, llm>>
    /\ UNCHANGED turn_vars

\* ---------------------------------------------------------------- turns
RECURSIVE SumOver(_, _)
SumOver(f, S) ==
    IF S = {} THEN 0
    ELSE LET x == CHOOSE y \in S : TRUE IN f[x] + SumOver(f, S \ {x})

\* mutant of MayStart: turns are serialised, one dispatching at a time
MayStart_serialized(s) ==
    /\ \A o \in Sessions : call[o].pc # "Dispatching"
    /\ initpc = "ready"
    /\ call[s].pc = "Idle"
    /\ SumOver(inbound, Sessions) < MaxTurns

\* a turn may start: the module is loaded and serving
MayStart(s) ==
    /\ initpc = "ready"
    /\ call[s].pc = "Idle"
    /\ SumOver(inbound, Sessions) < MaxTurns

\* the turns whose messages the checkpointer holds for a thread (a thread
\* exists from its first use)
get_state(tid) == IF tid \in DOMAIN checkpointer THEN checkpointer[tid] ELSE {}
\* checkpointer.put: the thread's state now holds messages of turn number
\* `turn` of session `by`
put_state(tid, by, turn) ==
    [t \in DOMAIN checkpointer \cup {tid} |->
        IF t = tid THEN get_state(tid) \cup {[by |-> by, turn |-> turn]}
        ELSE checkpointer[t]]

\* the request of a session that connects: the transport layer hands a
\* session hash to one session only
FreshRequest(s, r) ==
    \A o \in connected :
        Truthy(getattr_session_hash(r)) =>
            getattr_session_hash(request[o]) # getattr_session_hash(r)

\* mutant of messages_of: the history is resent ahead of the utterance
messages_with_history(message, history) ==
    [i \in 1 .. Len(history) |-> HumanMessage(history[i].content.str)]
        \o <<HumanMessage(message)>>

\* messages = [{"role": "user", "content": message}]
messages_of(message, history) == <<HumanMessage(message)>>

\* app.py predict(message, history, request), up to the creation of the stream:
\* the check of agent (outside the try), messages, session_hash, thread_id
app_predict(s, message, history, r) ==
    /\ variant = "app"
    /\ MayStart(s)
    /\ inbound' = [inbound EXCEPT ![s] = @ + 1]
    /\ IF agent = "unbound"
       THEN \* NameError: name 'agent' is not defined
            /\ call' = [call EXCEPT ![s] = [IdleCall EXCEPT !.pc = "Raised"]]
            /\ UNCHANGED <<derived, connected, request>>
       ELSE IF agent = "None"
       THEN /\ call' = [call EXCEPT ![s] = [IdleCall EXCEPT
                            !.pc = "Failed", !.result = ConfigFaultMessage]]
            /\ UNCHANGED <<derived, connected, request>>
       ELSE LET thread_id == thread_id_of(message, r)
            IN  /\ IF s \in connected THEN r = request[s] ELSE FreshRequest(s, r)
                /\ connected' = connected \cup {s}
                /\ request' = [request EXCEPT ![s] = r]
                /\ call' = [call EXCEPT ![s] = [IdleCall EXCEPT
                            !.pc = "Dispatching", !.message = message,
                            !.history = history,
                            !.messages = messages_of(message, history),
                            !.thread_id = thread_id]]
                /\ derived' = derived \cup
                       {[session |-> s, session_hash |-> getattr_session_hash(r),
                         thread_id |-> thread_id]}
    /\ UNCHANGED <<variant, env, checkpointer, outbound, faulted>>
    /\ UNCHANGED startup_vars

\* first next() of agent.stream({"messages": messages}, config, ...): the
\* engine is given the thread's checkpoints, adds the input and checkpoints it
stream_submit(s) ==
    /\ call[s].pc = "Dispatching"
    /\ variant = "app"
    /\ ~call[s].loaded
    /\ call' = [call EXCEPT ![s].loaded = TRUE,
                            ![s].given = get_state(call[s].thread_id),
                            ![s].submits = @ + 1]
    /\ checkpointer' = put_state(call[s].thread_id, s, inbound[s])
    /\ UNCHANGED <<variant, env, connected, request, inbound, outbound, derived, faulted>>
    /\ UNCHANGED startup_vars

\* the diagnostic lines of one iteration: "TOOL CALL" when the message has
\* tool_calls, "TOOL RESPONSE" when its type is 'tool'
log_lines(last_message) ==
    (IF last_message.tool_calls THEN {"TOOL CALL"} ELSE {})
        \cup (IF last_message.type = "tool" THEN {"TOOL RESPONSE"} ELSE {})

\* mutant of observe: the first message is kept
observe_first(final_response, last_message) ==
    IF final_response = NoneMsg THEN last_message ELSE final_response

\* final_response = last_message
observe(final_response, last_message) == last_message

\* mutant of stream_step: the loop gives up waiting for the next step
stream_step_timeout(s, last_message) ==
    /\ call[s].pc = "Dispatching"
    /\ variant = "app"
    /\ call[s].loaded
    /\ call[s].nsteps < MaxSteps
    /\ call' = [call EXCEPT ![s].pc = "Failed",
                            ![s].result = ErrorMessage("timed out")]
    /\ UNCHANGED <<variant, env, checkpointer, connected, request, inbound,
                   outbound, derived, faulted>>
    /\ UNCHANGED startup_vars

\* one iteration of `for step in agent.stream(...)`: the engine adds a
\* message to its state, checkpoints it and yields the state, and
\* final_response = step["messages"][-1]
stream_step(s, last_message) ==
    /\ call[s].pc = "Dispatching"
    /\ variant = "app"
    /\ call[s].loaded
    /\ call[s].nsteps < MaxSteps
    /\ call' = [call EXCEPT ![s].nsteps = @ + 1,
                            ![s].yielded = last_message,
                            ![s].log = @ \cup log_lines(last_message),
                            ![s].final_response =
                                observe(call[s].final_response, last_message)]
    /\ checkpointer' = put_state(call[s].thread_id, s, inbound[s])
    /\ UNCHANGED <<variant, env, connected, request, inbound, outbound, derived, faulted>>
    /\ UNCHANGED startup_vars

\* the first step of a stream in "values" mode is the input state as it
\* stands: its last message is the user's
stream_echo(s) ==
    /\ call[s].pc = "Dispatching"
    /\ variant = "app"
    /\ call[s].loaded
    /\ call[s].nsteps = 0
    /\ LET last_message == call[s].messages[Len(call[s].messages)]
       IN  call' = [call EXCEPT ![s].nsteps = @ + 1,
                                ![s].yielded = last_message,
                                ![s].log = @ \cup log_lines(last_message),
                                ![s].final_response =
                                    observe(call[s].final_response, last_message)]
    /\ UNCHANGED <<variant, env, checkpointer, connected, request, inbound,
                   outbound, derived, faulted>>
    /\ UNCHANGED startup_vars

\* mutant of stream_end: final_response.content without the hasattr test,
\* an AttributeError when no step was yielded
stream_end_attribute_error(s) ==
    /\ call[s].pc = "Dispatching"
    /\ variant = "app"
    /\ call[s].loaded
    /\ IF call[s].final_response = NoneMsg
       THEN /\ call' = [call EXCEPT
                   ![s].pc = "Failed",
                   ![s].fault = PyStr("'NoneType' object has no attribute 'content'"),
                   ![s].result = ErrorMessage("'NoneType' object has no attribute 'content'")]
            /\ faulted' = faulted \cup {[by |-> s, turn |-> inbound[s]]}
       ELSE /\ call' = [call EXCEPT ![s].pc = "Succeeded",
                                    ![s].result = call[s].final_response.content]
            /\ UNCHANGED faulted
    /\ UNCHANGED <<variant, env, checkpointer, connected, request, inbound,
                   outbound, derived>>
    /\ UNCHANGED startup_vars

\* the trace is exhausted: return final_response.content or str(final_response)
stream_end(s) ==
    /\ call[s].pc = "Dispatching"
    /\ variant = "app"
    /\ call[s].loaded
    /\ call' = [call EXCEPT ![s].pc = "Succeeded",
                            ![s].result = answer_of(call[s].final_response)]
    /\ UNCHANGED <<variant, env, checkpointer, connected, request, inbound,
                   outbound, derived, faulted>>
    /\ UNCHANGED startup_vars

\* mutant of predict_except: the fault is not caught
predict_no_except(s, text) ==
    /\ call[s].pc = "Dispatching"
    /\ call' = [call EXCEPT ![s].pc = "Raised", ![s].fault = PyStr(text)]
    /\ UNCHANGED <<variant, env, checkpointer, connected, request, inbound,
                   outbound, derived, faulted>>
    /\ UNCHANGED startup_vars

\* mutant of predict_except: the fault is logged and the engine is
\* submitted to again
predict_except_retry(s, text) ==
    /\ call[s].pc = "Dispatching"
    /\ call' = [call EXCEPT ![s].fault = PyStr(text), ![s].loaded = FALSE]
    /\ faulted' = faulted \cup {[by |-> s, turn |-> inbound[s]]}
    /\ UNCHANGED <<variant, env, checkpointer, connected, request, inbound,
                   outbound, derived>>
    /\ UNCHANGED startup_vars

\* except Exception as e: return f"An error occurred: {str(e)}"
\* (the engine raises on submission, between steps, or after the last one)
predict_except(s, text) ==
    /\ call[s].pc = "Dispatching"
    /\ call' = [call EXCEPT ![s].pc = "Failed", ![s].fault = PyStr(text),
                            ![s].result = ErrorMessage(text)]
    /\ faulted' = faulted \cup {[by |-> s, turn |-> inbound[s]]}
    /\ UNCHANGED <<variant, env, checkpointer, connected, request, inbound,
                   outbound, derived>>
    /\ UNCHANGED startup_vars

\* the Chat Front-End receives predict's return value as the one answer
return_answer(s) ==
    /\ call[s].pc \in {"Succeeded", "Failed"}
    /\ outbound' = [outbound EXCEPT ![s] = @ + 1]
    /\ call' = [call EXCEPT ![s] = IdleCall]
    /\ UNCHANGED <<variant, env, checkpointer, connected, request, inbound, derived, faulted>>
    /\ UNCHANGED startup_vars

\* an exception left predict: the Chat Front-End gets no answer for the turn
propagate(s) ==
    /\ call[s].pc = "Raised"
    /\ call' = [call EXCEPT ![s] = IdleCall]
    /\ UNCHANGED <<variant, env, checkpointer, connected, request, inbound,
                   outbound, derived, faulted>>
    /\ UNCHANGED startup_vars

\* -------------------------------------------------- main.py's predict
\* the content of a history entry: a str (or any object, by its str()), or
\* a list of parts {"type": ..., "text": ...}
StrContent(text) == [isList |-> FALSE, str |-> text, parts |-> <<>>]
ListContent(parts) == [isList |-> TRUE, str |-> "", parts |-> parts]
Part(type, text) == [type |-> type, text |-> text]
Entry(role, content) == [role |-> role, content |-> content]

\* the history arguments the Chat Front-End may pass
Histories ==
    { <<>>,
      <<Entry("user", StrContent("hi"))>>,
      <<Entry("user", StrContent("hi")), Entry("assistant", StrContent("hello"))>>,
      <<Entry("system", StrContent("rules")),
        Entry("user", ListContent(<<Part("text", "red"), Part("image", "png"),
                                    Part("text", "cars")>>))>> }

\* " ".join(texts)
RECURSIVE join(_)
join(texts) ==
    IF Len(texts) = 0 THEN ""
    ELSE IF Len(texts) = 1 THEN texts[1]
    ELSE texts[1] \o " " \o join(Tail(texts))

IsText(c) == c.type = "text"
PartText(parts) == [i \in DOMAIN parts |-> parts[i].text]

\* text = " ".join([c.get("text", "") for c in content if c.get("type") == "text"])
\*        if isinstance(content, list) else str(content)
text_of(content) ==
    IF content.isList THEN join(PartText(SelectSeq(content.parts, IsText)))
    ELSE content.str

\* mutant of context_of: the newest entry first
RECURSIVE context_newest_first(_)
context_newest_first(history) ==
    IF Len(history) = 0 THEN ""
    ELSE LET msg == history[1]
             text == text_of(msg.content)
             line == IF msg.role = "user" THEN "Human: " \o text \o "\n"
                     ELSE IF msg.role = "assistant" THEN "AI: " \o text \o "\n"
                     ELSE ""
         IN  context_newest_first(Tail(history)) \o line

\* the loop over history: "Human: ..." and "AI: ..." lines, other roles skipped
RECURSIVE context_of(_)
context_of(history) ==
    IF Len(history) = 0 THEN ""
    ELSE LET msg == history[1]
             text == text_of(msg.content)
             line == IF msg.role = "user" THEN "Human: " \o text \o "\n"
                     ELSE IF msg.role = "assistant" THEN "AI: " \o text \o "\n"
                     ELSE ""
         IN  line \o context_of(Tail(history))

\* full_prompt: the context and the message, or the message alone
full_prompt_of(message, history) ==
    LET context == context_of(history)
    IN  IF context # ""
        THEN "Previous conversation:\n" \o context \o "\n\nCurrent Request: " \o message
        ELSE message

\* the outputs agent_executor.invoke may return
Outputs == {"Here are 2 cars"}

\* main.py predict(message, history), up to the call of agent_executor.invoke
main_predict(s, message, history) ==
    /\ variant = "main"
    /\ MayStart(s)
    /\ inbound' = [inbound EXCEPT ![s] = @ + 1]
    /\ IF agent # "agent"
       THEN call' = [call EXCEPT ![s] = [IdleCall EXCEPT
                        !.pc = "Failed", !.result = ConfigFaultMessage]]
       ELSE call' = [call EXCEPT ![s] = [IdleCall EXCEPT
                        !.pc = "Dispatching", !.message = message,
                        !.history = history,
                        !.full_prompt = full_prompt_of(message, history),
                        !.loaded = TRUE, !.submits = 1]]
    /\ UNCHANGED <<variant, env, checkpointer, connected, request, outbound, derived, faulted>>
    /\ UNCHANGED startup_vars

\* response = agent_executor.invoke(full_prompt); return response['output']
invoke_return(s, output) ==
    /\ variant = "main"
    /\ call[s].pc = "Dispatching"
    /\ call' = [call EXCEPT ![s].pc = "Succeeded", ![s].result = output]
    /\ UNCHANGED <<variant, env, checkpointer, connected, request, inbound,
                   outbound, derived, faulted>>
    /\ UNCHANGED startup_vars

\* the next-state relation over the utterances U, the requests R, the
\* messages M the engine may yield, the fault texts F and the histories H
NextOver(U, R, M, F, H) ==
    \/ build_db_uri
    \/ connect_db
    \/ init_llm
    \/ create_agent
    \/ \E s \in Sessions, message \in U, history \in H, r \in R :
           app_predict(s, message, history, r)
    \/ \E s \in Sessions : stream_submit(s)
    \/ \E s \in Sessions, last_message \in M : stream_step(s, last_message)
    \/ \E s \in Sessions : stream_echo(s)
    \/ \E s \in Sessions : stream_end(s)
    \/ \E s \in Sessions, message \in U, history \in H :
           main_predict(s, message, history)
    \/ \E s \in Sessions, output \in Outputs : invoke_return(s, output)
    \/ \E s \in Sessions, text \in F : predict_except(s, text)
    \/ \E s \in Sessions : return_answer(s)
    \/ \E s \in Sessions : propagate(s)

\* sessions and threads: every request and utterance, one kind of step
SpecThreads ==
    Init /\ [][NextOver(Utterances, Requests, {AIMessage}, {"boom"}, {<<>>})]_vars

\* traces and answers: every kind of step and fault, one utterance, a
\* request without hash and one with, no history
SpecTrace ==
    Init /\ [][NextOver({"cars under 20k"}, {NoRequest, Request(PyStr("a"))},
                        StepMessages, FaultTexts, {<<>>})]_vars

\* histories and prompts: every history, both utterances, a request without
\* hash and one with, one kind of step
SpecHistory ==
    Init /\ [][NextOver(Utterances, {NoRequest, Request(PyStr("a"))},
                        {AIMessage}, {"boom"}, Histories)]_vars

\* the engine's trace for the call of session s ends, or raises
EngineEnds(s) ==
    \/ stream_end(s)
    \/ \E output \in Outputs : invoke_return(s, output)
    \/ \E text \in FaultTexts : predict_except(s, text)

\* termination: one utterance, a request without hash and one with, one
\* kind of step, and an engine whose every trace eventually ends or raises
SpecLive ==
    /\ Init
    /\ [][NextOver({"cars under 20k"}, {NoRequest, Request(PyStr("a"))},
                   {AIMessage}, FaultTexts, {<<>>})]_vars
    /\ \A s \in Sessions : WF_vars(EngineEnds(s))

\* ---------------------------------------------------------- properties
SessionHash(s) == getattr_session_hash(request[s])
Dispatched(s) == variant = "app" /\ call[s].pc = "Dispatching"

\* C1: two sessions whose session hashes are both present and different
\* are given different thread ids, and the engine never gives a turn of one
\* of them messages that a turn of the other wrote.
C1_SessionIsolation ==
    \A a, b \in connected :
        (~SessionHash(a).isNone /\ ~SessionHash(b).isNone
            /\ SessionHash(a) # SessionHash(b))
        => /\ \A d1, d2 \in derived :
                (d1.session = a /\ d2.session = b) => d1.thread_id # d2.thread_id
           /\ \A w \in call[a].given : w.by # b

\* two sessions with different hashes are dispatching at once, the thread of
\* one already holds its messages, and the other has been given its state
C1_Witness ==
    \E a, b \in connected :
        /\ Truthy(SessionHash(a)) /\ Truthy(SessionHash(b))
        /\ SessionHash(a) # SessionHash(b)
        /\ Dispatched(a) /\ call[a].loaded
        /\ Dispatched(b) /\ call[b].loaded
        /\ [by |-> b, turn |-> inbound[b]] \in get_state(call[b].thread_id)

\* C2 as stated: distinct sessions, whatever their session hash, never have
\* the same thread id, and one session always has the same thread id.
C2_DistinctSessionsNeverShare ==
    \A d1, d2 \in derived :
        /\ d1.session = d2.session => d1.thread_id = d2.thread_id
        /\ d1.session # d2.session => d1.thread_id # d2.thread_id

\* C2 amended: distinct sessions whose session hashes differ and are not both
\* absent (None or empty) never have the same thread id, and one session
\* always has the same thread id.
C2_SessionsWithAHashNeverShare ==
    \A d1, d2 \in derived :
        /\ d1.session = d2.session => d1.thread_id = d2.thread_id
        /\ (/\ d1.session # d2.session
            /\ d1.session_hash # d2.session_hash
            /\ Truthy(d1.session_hash) \/ Truthy(d2.session_hash))
           => d1.thread_id # d2.thread_id

\* a session without hash and a session with one have both been dispatched
C2_Witness ==
    \E d1, d2 \in derived :
        /\ d1.session # d2.session
        /\ ~Truthy(d1.session_hash) /\ Truthy(d2.session_hash)
        /\ Dispatched(d1.session) /\ Dispatched(d2.session)

\* C3: the thread id depends on the session hash alone: any two derivations
\* for the same session hash gave the same thread id.
C3_ThreadIdDeterministic ==
    \A d1, d2 \in derived :
        d1.session_hash = d2.session_hash => d1.thread_id = d2.thread_id

\* two turns with the same session hash and different utterances are
\* dispatched on one thread id
C3_Witness ==
    \E a, b \in connected :
        /\ a # b /\ SessionHash(a) = SessionHash(b)
        /\ Dispatched(a) /\ Dispatched(b)
        /\ call[a].message # call[b].message
        /\ call[a].thread_id = call[b].thread_id

\* C4: a turn whose session hash is absent (no request, no attribute, None)
\* is dispatched on the thread id THREAD_ID, and fails only if the engine
\* raises.
C4_AbsentHashFallback ==
    \A s \in connected :
        (variant = "app" /\ SessionHash(s).isNone)
        => /\ \A d \in derived : d.session = s => d.thread_id = THREAD_ID
           /\ call[s].pc = "Dispatching" => call[s].thread_id = THREAD_ID
           /\ call[s].pc # "Raised"
           /\ call[s].pc = "Failed" => ~call[s].fault.isNone

\* a turn with no request and a turn whose request has no session_hash are
\* both dispatched on THREAD_ID
C4_Witness ==
    \E a, b \in connected :
        /\ request[a] = NoRequest /\ request[b] = BareRequest
        /\ Dispatched(a) /\ Dispatched(b)
        /\ call[a].thread_id = THREAD_ID /\ call[b].thread_id = THREAD_ID

\* C5: when the agent was not constructed at start-up, every predict call
\* returns the configuration-fault message, without raising and without
\* submitting anything to the engine.
C5_ConfigFaultAnswer ==
    \A s \in Sessions :
        (initpc = "ready" /\ agent # "agent" /\ call[s].pc # "Idle")
        => /\ call[s].pc = "Failed"
           /\ call[s].result = ConfigFaultMessage
           /\ call[s].submits = 0

Configured(name) == Truthy(getenv(env, name))

\* C6: start-up does not crash on missing configuration: with DB_USER,
\* DB_PASSWORD or OPENAI_API_KEY absent, or the connection raising, there is
\* no database handle or no model client, initialisation completes, and the
\* agent is constructed exactly when both were created.
C6_StartupDegrades ==
    /\ (initpc \in {"llm", "agent", "ready", "crashed"}
            /\ (~Configured("DB_USER") \/ ~Configured("DB_PASSWORD")))
       => db = "None"
    /\ (initpc \in {"agent", "ready", "crashed"} /\ ~Configured("OPENAI_API_KEY"))
       => llm = "None"
    /\ initpc = "crashed" => (db # "None" /\ llm # "None")
    /\ initpc = "ready" => (agent = "agent" <=> (db # "None" /\ llm # "None"))
    /\ agent = "agent" => initpc = "ready"

\* the database was configured, connecting raised, and initialisation
\* completed without an agent
C6_Witness ==
    /\ initpc = "ready"
    /\ db_uri # "" /\ db = "None"
    /\ agent # "agent"

\* C7: when the engine raises, predict returns "An error occurred: " and the
\* fault's text, and no exception leaves predict.
C7_FaultBecomesMessage ==
    \A s \in Sessions :
        ~call[s].fault.isNone
        => /\ call[s].pc = "Failed"
           /\ call[s].result = "An error occurred: " \o call[s].fault.val
           /\ SubSeq(call[s].result, 1, 18) = "An error occurred:"

\* the engine raised "boom" after a first step and before the last
C7_Witness ==
    \E s \in Sessions :
        /\ variant = "app"
        /\ call[s].pc = "Failed"
        /\ call[s].fault = PyStr("boom")
        /\ call[s].nsteps \in 1 .. (MaxSteps - 1)
        /\ call[s].result = "An error occurred: boom"

\* C8: after a trace of one or more steps that ended without fault, predict
\* returns the content of the last message the engine yielded (when that
\* message has a content attribute).
C8_LastContentReturned ==
    \A s \in Sessions :
        (variant = "app" /\ call[s].pc = "Succeeded" /\ call[s].nsteps > 0
            /\ call[s].yielded.hasContent)
        => call[s].result = call[s].yielded.content

\* three steps with a tool invocation and a tool result, the last saying
\* "Here are 2 cars", which is the answer
C8_Witness ==
    \E s \in Sessions :
        /\ variant = "app" /\ call[s].pc = "Succeeded"
        /\ call[s].nsteps = 3
        /\ call[s].log = {"TOOL CALL", "TOOL RESPONSE"}
        /\ call[s].yielded = AIMessage
        /\ call[s].result = "Here are 2 cars"

\* C9: when the last message yielded has no content attribute, predict
\* returns its string representation.
C9_StrFallback ==
    \A s \in Sessions :
        (variant = "app" /\ call[s].pc = "Succeeded" /\ call[s].nsteps > 0
            /\ ~call[s].yielded.hasContent)
        => call[s].result = call[s].yielded.str

\* the last step was an object without content, and the answer is "<raw>"
C9_Witness ==
    \E s \in Sessions :
        /\ variant = "app" /\ call[s].pc = "Succeeded"
        /\ call[s].nsteps > 1
        /\ call[s].yielded = RawMessage
        /\ call[s].result = "<raw>"

IsErrorMessage(text) ==
    Len(text) >= 19 /\ SubSeq(text, 1, 19) = "An error occurred: "

\* C10: every turn is Idle, Dispatching, Succeeded or Failed, every turn that
\* has ended got exactly one answer, and the answer is the configuration
\* fault message, an "An error occurred: ..." message, or the last step's
\* answer.
C10_OneAnswerPerTurn ==
    \A s \in Sessions :
        /\ call[s].pc \in {"Idle", "Dispatching", "Succeeded", "Failed"}
        /\ inbound[s] = outbound[s] + (IF call[s].pc = "Idle" THEN 0 ELSE 1)
        /\ call[s].pc = "Failed"
           => call[s].result = ConfigFaultMessage \/ IsErrorMessage(call[s].result)
        /\ (call[s].pc = "Succeeded" /\ variant = "app")
           => call[s].result = answer_of(call[s].yielded)

\* C11: a fault is local to its turn: when a turn is submitted to the engine,
\* the conversation state the engine is given for its thread holds nothing
\* of an earlier turn of the session that ended in a fault of the engine.
C11_FaultIsLocal ==
    [][\A s \in Sessions :
          (variant = "app" /\ ~call[s].loaded /\ call'[s].loaded)
          => \A w \in call'[s].given :
                 ~(w.by = s /\ w.turn < inbound[s] /\ w \in faulted)]_vars

\* C12: in app.py the request submitted to the engine holds one message, the
\* current utterance with role user, and two calls that differ only in their
\* history argument submit the same messages on the same thread id.
C12_HistoryIgnored ==
    \A a, b \in Sessions :
        Dispatched(a)
        => /\ Len(call[a].messages) = 1
           /\ call[a].messages[1].type = "human"
           /\ call[a].messages[1].content = call[a].message
           /\ (Dispatched(b) /\ call[a].message = call[b].message
                   /\ SessionHash(a) = SessionHash(b))
              => /\ call[a].messages = call[b].messages
                 /\ call[a].thread_id = call[b].thread_id

\* two calls with the same utterance and session hash, one with an empty
\* history and one with a history of two entries, have both been submitted
C12_Witness ==
    \E a, b \in Sessions :
        /\ Dispatched(a) /\ call[a].loaded
        /\ Dispatched(b) /\ call[b].loaded
        /\ call[a].message = call[b].message
        /\ SessionHash(a) = SessionHash(b)
        /\ call[a].history = <<>> /\ Len(call[b].history) = 2
        /\ call[a].messages = call[b].messages

\* text holds sub as a substring
Contains(text, sub) ==
    \E i \in 1 .. (Len(text) + 1 - Len(sub)) :
        SubSeq(text, i, i + Len(sub) - 1) = sub

\* C13: faults end the turn: one predict call submits to the engine at most
\* once, and not at all when the agent was not constructed; once the engine
\* has raised, the call is no longer dispatching (nothing is retried) and its
\* result is the error message, which holds none of the content of the
\* steps observed before the fault.
C13_FaultsTerminal ==
    \A s \in Sessions :
        /\ call[s].submits <= 1
        /\ agent # "agent" => call[s].submits = 0
        /\ ~call[s].fault.isNone
           => /\ call[s].pc = "Failed"
              /\ call[s].result = ErrorMessage(call[s].fault.val)
              /\ \A mm \in StepMessages \cup {call[s].yielded} :
                     mm.content # "" => ~Contains(call[s].result, mm.content)

\* the engine raised after a tool invocation and a tool result had been
\* observed, and the one submission's answer is the error message alone
C13_Witness ==
    \E s \in Sessions :
        /\ variant = "app" /\ call[s].pc = "Failed"
        /\ call[s].fault = PyStr("boom")
        /\ call[s].submits = 1
        /\ call[s].nsteps >= 2
        /\ call[s].log = {"TOOL CALL", "TOOL RESPONSE"}
        /\ call[s].yielded = ToolMessage
        /\ call[s].result = "An error occurred: boom"

\* the turn that session s has in progress
Turn(s) == [by |-> s, turn |-> inbound[s]]

\* C14: predict takes no lock and keeps no queue: while a turn on a thread
\* is dispatching, a second turn on the same thread can start; and two turns
\* dispatching on different thread ids touch disjoint memory: neither is given
\* nor finds under its thread id anything the other's session wrote.
C14_NoLockDisjointThreads ==
    \A a, b \in Sessions :
        (a # b /\ Dispatched(a))
        => /\ (Dispatched(b) /\ call[a].thread_id # call[b].thread_id)
              => /\ \A w \in call[a].given : w.by # b
                 /\ \A w \in get_state(call[a].thread_id) : w.by # b
           /\ \A r \in Requests :
                 (/\ call[b].pc = "Idle"
                  /\ SumOver(inbound, Sessions) < MaxTurns
                  /\ IF b \in connected THEN r = request[b]
                     ELSE FreshRequest(b, r)
                  /\ thread_id_of("", r) = call[a].thread_id)
                 => ENABLED app_predict(b, "cheaper ones", <<>>, r)

\* a race: two turns are dispatching on one thread id, the second was given
\* the unfinished first turn's messages, and both have written steps since
C14_Witness ==
    \E a, b \in Sessions :
        /\ a # b /\ Dispatched(a) /\ Dispatched(b)
        /\ call[a].thread_id = call[b].thread_id
        /\ call[a].nsteps >= 1 /\ call[b].nsteps >= 1
        /\ Turn(a) \in call[b].given /\ Turn(b) \notin call[a].given
        /\ {Turn(a), Turn(b)} \subseteq get_state(call[a].thread_id)

\* C15: predict has no timeout or cancellation: a call leaves Dispatching
\* only when the trace ends (it returns the answer) or the engine raises (it
\* returns the error message of that fault); so with an engine whose every
\* trace eventually ends or raises, every dispatched turn eventually returns
\* a message, and otherwise it stays in Dispatching.
C15_NoTimeout ==
    /\ [][\A s \in Sessions :
             (call[s].pc = "Dispatching" /\ call'[s].pc # "Dispatching")
             => \/ /\ call'[s].pc = "Succeeded"
                   /\ call[s].loaded
                   /\ call'[s].fault.isNone
                \/ /\ call'[s].pc = "Failed"
                   /\ ~call'[s].fault.isNone
                   /\ call'[s].result = ErrorMessage(call'[s].fault.val)]_vars
    /\ \A s \in Sessions :
          (call[s].pc = "Dispatching") ~> (call[s].pc \in {"Succeeded", "Failed"})

\* a turn whose trace ran to its full length has returned its answer
C15_Witness ==
    \E s \in Sessions :
        /\ variant = "app" /\ call[s].pc = "Succeeded"
        /\ call[s].nsteps = MaxSteps
        /\ call[s].result = "Here are 2 cars"

\* C16: when the engine's trace ends without a step, predict takes the success
\* path and returns the string "None": the step in which a trace without
\* steps ends leaves the call Succeeded with no fault, and a Succeeded call
\* without steps has the answer "None", which is no "An error occurred: "
\* message.
C16_EmptyTraceAnswersNone ==
    /\ [][\A s \in Sessions :
             (call[s].nsteps = 0 /\ stream_end(s))
             => /\ call'[s].pc = "Succeeded"
                /\ call'[s].fault.isNone
                /\ call'[s].result = "None"]_vars
    /\ [](\A s \in Sessions :
             (variant = "app" /\ call[s].pc = "Succeeded" /\ call[s].nsteps = 0)
             => /\ call[s].result = "None"
                /\ call[s].fault.isNone
                /\ ~IsErrorMessage(call[s].result))

\* a call was submitted, the trace ended with no step, and the answer is "None"
C16_Witness ==
    \E s \in Sessions :
        /\ variant = "app" /\ call[s].pc = "Succeeded"
        /\ call[s].submits = 1 /\ call[s].nsteps = 0
        /\ call[s].final_response = NoneMsg
        /\ call[s].result = "None"

\* the entries of a history that a user or the assistant said, and the line
\* each is rendered as
Spoken(e) == e.role \in {"user", "assistant"}
LineOf(e) ==
    (IF e.role = "user" THEN "Human: " ELSE "AI: ") \o text_of(e.content) \o "\n"
RECURSIVE Concat(_)
Concat(lines) ==
    IF Len(lines) = 0 THEN ""
    ELSE Concat(SubSeq(lines, 1, Len(lines) - 1)) \o lines[Len(lines)]

\* C17: main.py's predict builds the context from the history of the call:
\* the user and assistant entries in their order as "Human: ..." and
\* "AI: ..." lines, other roles skipped; the engine is invoked once, with the
\* utterance alone when the context is empty and otherwise with
\* "Previous conversation:", the context, "Current Request:" and the utterance.
C17_ContextFromHistory ==
    \A s \in Sessions :
        variant = "main"
        => /\ call[s].submits <= 1
           /\ call[s].pc = "Dispatching"
              => LET spoken == SelectSeq(call[s].history, Spoken)
                     context == Concat([i \in DOMAIN spoken |-> LineOf(spoken[i])])
                 IN  /\ call[s].submits = 1
                     /\ call[s].full_prompt =
                            IF context = "" THEN call[s].message
                            ELSE "Previous conversation:\n" \o context
                                     \o "\n\nCurrent Request: " \o call[s].message

\* the engine was invoked for "cheaper ones" after a history in which the
\* user said "hi" and the assistant "hello"; another call, whose history holds
\* a system entry and a user entry in parts, was invoked with the text parts
C17_Witness ==
    \E a, b \in Sessions :
        /\ variant = "main"
        /\ call[a].pc = "Dispatching" /\ call[b].pc = "Dispatching"
        /\ Len(call[a].history) = 2
        /\ call[a].full_prompt =
               "Previous conversation:\nHuman: hi\nAI: hello\n\n\nCurrent Request: cheaper ones"
        /\ Len(call[b].history) = 2 /\ call[b].history[1].role = "system"
        /\ call[b].full_prompt =
               "Previous conversation:\nHuman: red cars\n\n\nCurrent Request: cheaper ones"

====
